---- MODULE Spec2Model ----
(***************************************************************************)
(* captain-search: the provider orchestration engine.                      *)
(*   search_web   (tools/search.py)      weighted pick + ordered fallback  *)
(*   search_multi (tools/search.py)      parallel fan-out, merge, dedup    *)
(*   search_code  (tools/code_search.py) fixed sequence of code sources    *)
(* together with the part of Config (config.py) the three of them read.    *)
(*                                                                         *)
(* Python strings built with f-strings are modelled as records of their    *)
(* parts; None and "" (both falsy where the code tests them) are the empty *)
(* sequence.                                                               *)
(***************************************************************************)
EXTENDS Integers, Sequences, FiniteSets, TLC

VARIABLES config, cache, web, multi, code, adapter

vars == <<config, cache, web, multi, code, adapter>>

(***************************************************************************)
(* Bounds of the model.                                                    *)
(***************************************************************************)
\* longest result list one provider returns
MaxResults == 1
\* largest configured weight (config.py allows 0..100)
MaxWeight == 2
\* longest `providers` argument of search_multi
MaxSubsetLen == 2

\* urls the upstream services may return
Urls == {"u1", "u2"}

(***************************************************************************)
(* Sequence helpers.                                                       *)
(***************************************************************************)
Range(s) == {s[i] : i \in 1..Len(s)}

SeqsUpTo(S, n) == UNION {[1..k -> S] : k \in 0..n}

RECURSIVE SumWeights(_, _)
SumWeights(keys, w) ==
  IF keys = <<>> THEN 0 ELSE w[Head(keys)] + SumWeights(Tail(keys), w)

(***************************************************************************)
(* Config (config.py).  The model keeps three of the six registrations,    *)
(* one of each kind _get_provider_instance distinguishes: serper needs     *)
(* api_key, tavily takes api_key or api_keys, exa_mcp needs no key.        *)
(* api_key / api_keys are TRUE when the field is set / non-empty.          *)
(***************************************************************************)
KeyedProviders == <<"serper", "tavily">>

AllProviders == KeyedProviders \o <<"exa_mcp">>

ProviderNames == Range(AllProviders)

DefaultWeight(name) ==
  CASE name = "serper" -> 42
    [] name = "tavily" -> 17
    [] name = "exa_mcp" -> 15

\* the registrations a configuration file and the environment can produce
\* for one provider, over the weights W
ProviderConfig(name, W) ==
  IF name = "exa_mcp"
  THEN [weight : W, enabled : BOOLEAN, api_key : {FALSE}, api_keys : {FALSE}]
  ELSE [weight : W, enabled : {TRUE}, api_key : {FALSE}, api_keys : BOOLEAN]
       \cup [weight : W, enabled : BOOLEAN, api_key : {TRUE}, api_keys : {FALSE}]

ProvidersConfig(W) ==
  {c \in [ProviderNames -> UNION {ProviderConfig(n, W) : n \in ProviderNames}] :
     \A n \in ProviderNames : c[n] \in ProviderConfig(n, W)}

DefaultProvidersConfig ==
  {c \in [ProviderNames ->
            UNION {ProviderConfig(n, {DefaultWeight(n)}) : n \in ProviderNames}] :
     \A n \in ProviderNames : c[n] \in ProviderConfig(n, {DefaultWeight(n)})}

HasCredentials(p) == p.api_key \/ p.api_keys

GetEnabledProviders(cfg) ==
  LET ok(n) == cfg[n].enabled /\ HasCredentials(cfg[n])
  IN  SelectSeq(KeyedProviders, ok)
        \o (IF cfg["exa_mcp"].enabled THEN <<"exa_mcp">> ELSE <<>>)

\* the dict of weights: its keys in insertion order; the weights are
\* cfg[name].weight
GetProviderWeights(cfg) == GetEnabledProviders(cfg)

\* TRUE when _get_provider_instance returns a provider, FALSE when None
GetProviderInstance(name, cfg) ==
  IF name \notin DOMAIN cfg THEN FALSE
  ELSE IF ~cfg[name].enabled THEN FALSE
  ELSE CASE name = "serper" -> cfg[name].api_key
         [] name = "tavily" -> cfg[name].api_key \/ cfg[name].api_keys
         [] name = "exa_mcp" -> TRUE
         [] OTHER -> FALSE

(***************************************************************************)
(* What a provider's search can do (providers/base.py): return a list of   *)
(* results, or raise HTTPStatusError, TimeoutException or something else.  *)
(***************************************************************************)
Statuses == {401, 403, 429, 500, 404}

SearchResult(name) == [url : Urls, source : {name}]

ResultLists(name) == SeqsUpTo(SearchResult(name), MaxResults)

Returned(rs) == [kind |-> "ok", results |-> rs, status |-> 0, exc |-> ""]

HTTPStatusError(s) == [kind |-> "http", results |-> <<>>, status |-> s, exc |-> ""]

TimeoutException == [kind |-> "timeout", results |-> <<>>, status |-> 0, exc |-> ""]

OtherException == [kind |-> "other", results |-> <<>>, status |-> 0, exc |-> "ValueError"]

Failures ==
  {HTTPStatusError(s) : s \in Statuses} \cup {TimeoutException, OtherException}

SearchOutcomes(name) == {Returned(rs) : rs \in ResultLists(name)} \cup Failures

(***************************************************************************)
(* Error messages.  A message is the provider it names, its fixed text and *)
(* the status code when the text prints it; an error string is a sequence  *)
(* of messages, <<>> standing for None.                                    *)
(***************************************************************************)
Msg(provider, text, status) ==
  [provider |-> provider, text |-> text, status |-> status]

HandleApiError(status, provider) ==
  IF status = 401 THEN Msg(provider, "Invalid API key", 0)
  ELSE IF status = 403 THEN Msg(provider, "Access forbidden", 0)
  ELSE IF status = 429 THEN Msg(provider, "Rate limit exceeded", 0)
  ELSE IF status >= 500 THEN Msg(provider, "Server error", status)
  ELSE Msg(provider, "HTTP", status)

Separator == Msg("", "; ", 0)

\* "; ".join(errors)
RECURSIVE Join(_)
Join(errors) ==
  IF errors = <<>> THEN <<>>
  ELSE IF Len(errors) = 1 THEN <<errors[1]>>
  ELSE <<errors[1], Separator>> \o Join(Tail(errors))

None == <<>>

(***************************************************************************)
(* Renderers.  body is the fixed text the output starts with or consists   *)
(* of; has_error_key is meaningful for json.                               *)
(***************************************************************************)
Formats == {"markdown", "json"}

NoResponse ==
  [format |-> "", body |-> "", has_error_key |-> FALSE, error |-> None,
   results |-> <<>>]

FormatResultsMarkdown(results, error) ==
  IF error # None
  THEN [format |-> "markdown", body |-> "**Error:**", has_error_key |-> FALSE,
        error |-> error, results |-> <<>>]
  ELSE IF results = <<>>
  THEN [format |-> "markdown", body |-> "No results found.",
        has_error_key |-> FALSE, error |-> None, results |-> <<>>]
  ELSE [format |-> "markdown", body |-> "results", has_error_key |-> FALSE,
        error |-> None, results |-> results]

FormatResultsJson(results, error) ==
  [format |-> "json", body |-> "object", has_error_key |-> error # None,
   error |-> error, results |-> results]

(***************************************************************************)
(* search_web (tools/search.py 158-241).                                   *)
(***************************************************************************)
Weight(cfg) == [n \in ProviderNames |-> cfg[n].weight]

\* sorted(keys, key=weight, reverse=True): Python's sort is stable, also
\* with reverse=True, so equal weights keep their order in keys.
RECURSIVE InsertBeforeTies(_, _, _)
InsertBeforeTies(sorted, x, w) ==
  IF sorted = <<>> THEN <<x>>
  ELSE IF w[Head(sorted)] > w[x]
       THEN <<Head(sorted)>> \o InsertBeforeTies(Tail(sorted), x, w)
       ELSE <<x>> \o sorted

RECURSIVE InsertByWeight(_, _, _)
InsertByWeight(sorted, x, w) ==
  IF sorted = <<>> THEN <<x>>
  ELSE IF w[Head(sorted)] >= w[x]
       THEN <<Head(sorted)>> \o InsertByWeight(Tail(sorted), x, w)
       ELSE <<x>> \o sorted

RECURSIVE SortedProviders(_, _)
SortedProviders(keys, w) ==
  IF keys = <<>> THEN <<>>
  ELSE InsertByWeight(SortedProviders(SubSeq(keys, 1, Len(keys) - 1), w),
                      keys[Len(keys)], w)

\* random.uniform(0, total) is drawn in half units: r = r2 / 2 lies in
\* [0, total).  random.choice draws an index.
Draws(total) == IF total = 0 THEN {0} ELSE 0..(2 * total - 1)

RECURSIVE CumulativeWalk(_, _, _, _, _)
CumulativeWalk(keys, w, r2, i, cumulative) ==
  IF i > Len(keys) THEN keys[Len(keys)]
  ELSE IF r2 <= 2 * (cumulative + w[keys[i]]) THEN keys[i]
  ELSE CumulativeWalk(keys, w, r2, i + 1, cumulative + w[keys[i]])

WeightedChoiceOfFirst(keys, w, r2, u) ==
  IF keys = <<>> THEN "ValueError"
  ELSE IF SumWeights(keys, w) = 0 THEN keys[1]
  ELSE CumulativeWalk(keys, w, r2, 1, 0)

\* _weighted_random_choice (lines 96-114); "ValueError" is the raise of
\* line 99
WeightedRandomChoice(keys, w, r2, u) ==
  IF keys = <<>> THEN "ValueError"
  ELSE IF SumWeights(keys, w) = 0 THEN keys[u]
  ELSE CumulativeWalk(keys, w, r2, 1, 0)

Choices(keys) == IF keys = <<>> THEN {0} ELSE 1..Len(keys)

EmptyWeightsIgnored(weights) == FALSE

\* line 183: if not weights
EmptyWeights(weights) == weights = <<>>

ProvidersToTryKeepsSelected(selected, sorted_providers) ==
  <<selected>> \o sorted_providers

ProvidersToTry(selected, sorted_providers) ==
  LET other(p) == p # selected
  IN  <<selected>> \o SelectSeq(sorted_providers, other)

NoProvidersConfigured == <<Msg("", "No search providers configured", 0)>>

\* lines 239-241
FormatResponse(format, results, error) ==
  IF format = "json" THEN FormatResultsJson(results, error)
  ELSE FormatResultsMarkdown(results, error)

\* lines 188 and 278: the early returns test for "markdown" instead
FormatEarlyReturn(format, error) ==
  IF format = "markdown" THEN FormatResultsMarkdown(<<>>, error)
  ELSE FormatResultsJson(<<>>, error)

WebIdle ==
  [pc |-> "idle", format |-> "", weights |-> <<>>, sorted_providers |-> <<>>,
   selected |-> "", providers_to_try |-> <<>>, idx |-> 0,
   results |-> <<>>, providers_used |-> <<>>, last_error |-> None,
   invoked |-> <<>>, closed |-> <<>>, last_outcome |-> Returned(<<>>),
   in_flight |-> 0, r2 |-> 0, u |-> 0, type_error |-> "",
   response |-> NoResponse]

\* lines 178-197: the weight table, the draw and the try-sequence; r2 and u
\* keep the draw that was used (r in half units, the index of random.choice)
WebBegin ==
  /\ web.pc = "idle"
  /\ \E format \in Formats :
       LET weights == GetProviderWeights(config)
           w == Weight(config)
       IN  IF EmptyWeights(weights)
           THEN web' = [web EXCEPT
                  !.pc = "done", !.format = format,
                  !.response = FormatEarlyReturn(format, NoProvidersConfigured)]
           ELSE \E r2 \in Draws(SumWeights(weights, w)), u \in Choices(weights) :
                  LET sorted_providers == SortedProviders(weights, w)
                      selected == WeightedRandomChoice(weights, w, r2, u)
                  IN  IF selected = "ValueError"
                      THEN web' = [web EXCEPT !.pc = "raised", !.format = format]
                      ELSE web' = [web EXCEPT
                             !.pc = "loop", !.format = format,
                             !.weights = weights,
                             !.sorted_providers = sorted_providers,
                             !.selected = selected,
                             !.r2 = IF SumWeights(weights, w) = 0 THEN 0 ELSE r2,
                             !.u = IF SumWeights(weights, w) = 0 THEN u ELSE 0,
                             !.providers_to_try =
                                ProvidersToTry(selected, sorted_providers),
                             !.idx = 1]
  /\ UNCHANGED <<config, cache, multi, code, adapter>>

\* lines 158-162: the parameters of search_web
SearchWebParameters == {"query", "max_results", "format"}

\* the keyword arguments of the calls in tests/test_basic.py (line 50) and
\* tests/test_providers.py (lines 31-36)
CallKeywords ==
  { {"query", "max_results", "format"},
    {"query", "max_results", "provider", "format"} }

\* a call of search_web by keywords: Python binds the arguments before the
\* body runs and raises TypeError for a keyword that is no parameter;
\* type_error keeps the keyword the message names
WebCall ==
  /\ web.pc = "idle"
  /\ \E kwargs \in CallKeywords :
       IF kwargs \subseteq SearchWebParameters
       THEN WebBegin
       ELSE /\ web' = [web EXCEPT
                  !.pc = "raised",
                  !.type_error = CHOOSE k \in kwargs \ SearchWebParameters : TRUE]
            /\ UNCHANGED <<config, cache, multi, code, adapter>>

\* lines 203-209: the next candidate; no instance means continue
WebTry ==
  /\ web.pc = "loop"
  /\ web.idx <= Len(web.providers_to_try)
  /\ LET provider_name == web.providers_to_try[web.idx]
     IN  IF GetProviderInstance(provider_name, config)
         THEN web' = [web EXCEPT !.pc = "searching",
                                 !.invoked = Append(@, provider_name),
                                 !.in_flight = @ + 1]
         ELSE web' = [web EXCEPT !.idx = @ + 1]
  /\ UNCHANGED <<config, cache, multi, code, adapter>>

\* lines 214-224: the except clauses
WebClassify(provider_name, outcome) ==
  IF outcome.kind = "http" THEN <<HandleApiError(outcome.status, provider_name)>>
  ELSE IF outcome.kind = "timeout" THEN <<Msg(provider_name, "Request timed out", 0)>>
  ELSE <<Msg(provider_name, outcome.exc, 0)>>

AfterSearchKeepsError(w, provider_name, outcome) ==
  IF outcome.kind = "ok"
  THEN [w EXCEPT !.results = outcome.results,
                 !.providers_used = Append(@, provider_name),
                 !.last_outcome = outcome,
                 !.closed = Append(@, provider_name),
                 !.in_flight = @ - 1,
                 !.pc = "break"]
  ELSE [w EXCEPT !.last_error = WebClassify(provider_name, outcome),
                 !.last_outcome = outcome,
                 !.closed = Append(@, provider_name),
                 !.in_flight = @ - 1,
                 !.idx = @ + 1,
                 !.pc = "loop"]

AfterSearchFirstError(w, provider_name, outcome) ==
  IF outcome.kind = "ok"
  THEN [w EXCEPT !.results = outcome.results,
                 !.providers_used = Append(@, provider_name),
                 !.last_error = None,
                 !.last_outcome = outcome,
                 !.closed = Append(@, provider_name),
                 !.in_flight = @ - 1,
                 !.pc = "break"]
  ELSE [w EXCEPT !.last_error = IF @ = None
                                THEN WebClassify(provider_name, outcome) ELSE @,
                 !.last_outcome = outcome,
                 !.closed = Append(@, provider_name),
                 !.in_flight = @ - 1,
                 !.idx = @ + 1,
                 !.pc = "loop"]

AfterSearchLeaksOnError(w, provider_name, outcome) ==
  IF outcome.kind = "ok"
  THEN [w EXCEPT !.results = outcome.results,
                 !.providers_used = Append(@, provider_name),
                 !.last_error = None,
                 !.last_outcome = outcome,
                 !.closed = Append(@, provider_name),
                 !.in_flight = @ - 1,
                 !.pc = "break"]
  ELSE [w EXCEPT !.last_error = WebClassify(provider_name, outcome),
                 !.last_outcome = outcome,
                 !.idx = @ + 1,
                 !.pc = "loop"]

\* lines 208-227: what the loop body does with the search's outcome; the
\* finally clause closes the provider on every path
WebAfterSearch(w, provider_name, outcome) ==
  IF outcome.kind = "ok"
  THEN [w EXCEPT !.results = outcome.results,
                 !.providers_used = Append(@, provider_name),
                 !.last_error = None,
                 !.last_outcome = outcome,
                 !.closed = Append(@, provider_name),
                 !.in_flight = @ - 1,
                 !.pc = "break"]
  ELSE [w EXCEPT !.last_error = WebClassify(provider_name, outcome),
                 !.last_outcome = outcome,
                 !.closed = Append(@, provider_name),
                 !.in_flight = @ - 1,
                 !.idx = @ + 1,
                 !.pc = "loop"]

WebSettle ==
  /\ web.pc = "searching"
  /\ LET provider_name == web.providers_to_try[web.idx]
     IN  \E outcome \in SearchOutcomes(provider_name) :
           web' = WebAfterSearch(web, provider_name, outcome)
  /\ UNCHANGED <<config, cache, multi, code, adapter>>

\* lines 231-241
WebResponse(w) ==
  FormatResponse(w.format, w.results,
                 IF w.results = <<>> THEN w.last_error ELSE None)

WebLoopOver(w) ==
  IF w.pc = "break" THEN TRUE
  ELSE w.pc = "loop" /\ w.idx > Len(w.providers_to_try)

WebRespond ==
  /\ WebLoopOver(web)
  /\ web' = [web EXCEPT !.pc = "done", !.response = WebResponse(web)]
  /\ UNCHANGED <<config, cache, multi, code, adapter>>

(***************************************************************************)
(* search_multi (tools/search.py 244-354).                                 *)
(***************************************************************************)
\* the `providers` argument; <<>> is None or [], which `if providers`
\* treats alike.  The names a caller lists: two registered ones, in either
\* order and repeated, and "bogus", a name no registration has.
SubsetNames == {"serper", "tavily", "bogus"}

SubsetArgs == SeqsUpTo(SubsetNames, MaxSubsetLen)

ProvidersToUseUnfiltered(providers, available) ==
  IF providers # <<>> THEN providers ELSE available

\* line 271: None and the empty list are both falsy
ProvidersToUse(providers, available) ==
  LET known(p) == p \in Range(available)
  IN  IF providers # <<>> THEN SelectSeq(providers, known) ELSE available

\* lines 281-285
ProviderInstances(providers_to_use, cfg) ==
  LET made(name) == GetProviderInstance(name, cfg)
  IN  SelectSeq(providers_to_use, made)

NoProvidersAvailable == <<Msg("", "No search providers available", 0)>>

Pending(name) ==
  [st |-> "pending", name |-> name, results |-> <<>>, error |-> None]

SearchProviderNoCatchAll(name, outcome) ==
  IF outcome.kind = "ok"
  THEN [st |-> "done", name |-> name, results |-> outcome.results, error |-> None]
  ELSE IF outcome.kind = "http"
  THEN [st |-> "done", name |-> name, results |-> <<>>,
        error |-> <<HandleApiError(outcome.status, name)>>]
  ELSE IF outcome.kind = "timeout"
  THEN [st |-> "done", name |-> name, results |-> <<>>,
        error |-> <<Msg(name, "Timed out", 0)>>]
  ELSE [st |-> "raised", name |-> name, results |-> <<>>, error |-> None]

\* lines 288-299: the value search_provider returns for the search's outcome
SearchProvider(name, outcome) ==
  IF outcome.kind = "ok"
  THEN [st |-> "done", name |-> name, results |-> outcome.results, error |-> None]
  ELSE IF outcome.kind = "http"
  THEN [st |-> "done", name |-> name, results |-> <<>>,
        error |-> <<HandleApiError(outcome.status, name)>>]
  ELSE IF outcome.kind = "timeout"
  THEN [st |-> "done", name |-> name, results |-> <<>>,
        error |-> <<Msg(name, "Timed out", 0)>>]
  ELSE [st |-> "done", name |-> name, results |-> <<>>,
        error |-> <<Msg(name, outcome.exc, 0)>>]

\* lines 309-314, over results_by_provider in the order gather returns it
RECURSIVE AllResults(_)
AllResults(results_by_provider) ==
  IF results_by_provider = <<>> THEN <<>>
  ELSE Head(results_by_provider).results \o AllResults(Tail(results_by_provider))

RECURSIVE ProvidersUsed(_)
ProvidersUsed(results_by_provider) ==
  IF results_by_provider = <<>> THEN <<>>
  ELSE (IF Head(results_by_provider).results # <<>>
        THEN <<Head(results_by_provider).name>> ELSE <<>>)
       \o ProvidersUsed(Tail(results_by_provider))

RECURSIVE Errors(_)
Errors(results_by_provider) ==
  IF results_by_provider = <<>> THEN <<>>
  ELSE Head(results_by_provider).error \o Errors(Tail(results_by_provider))

RECURSIVE UniqueBySource(_, _)
UniqueBySource(all_results, seen) ==
  IF all_results = <<>> THEN <<>>
  ELSE IF Head(all_results) \notin seen
       THEN <<Head(all_results)>>
            \o UniqueBySource(Tail(all_results), seen \cup {Head(all_results)})
       ELSE UniqueBySource(Tail(all_results), seen)

\* lines 318-324
RECURSIVE UniqueResults(_, _)
UniqueResults(all_results, seen_urls) ==
  IF all_results = <<>> THEN <<>>
  ELSE IF Head(all_results).url \notin seen_urls
       THEN <<Head(all_results)>>
            \o UniqueResults(Tail(all_results), seen_urls \cup {Head(all_results).url})
       ELSE UniqueResults(Tail(all_results), seen_urls)

\* lines 317, 324
Deduplicate(deduplicate, all_results) ==
  IF deduplicate /\ all_results # <<>> THEN UniqueResults(all_results, {})
  ELSE all_results

ResponseSentinelFirst(format, all_results, errors) ==
  IF format = "json"
  THEN [format |-> "json", body |-> "object", has_error_key |-> FALSE,
        error |-> None, results |-> all_results]
  ELSE IF all_results = <<>>
  THEN [format |-> "markdown", body |-> "No results found.",
        has_error_key |-> FALSE, error |-> None, results |-> <<>>]
  ELSE [format |-> "markdown", body |-> "results", has_error_key |-> FALSE,
        error |-> None, results |-> all_results]

MultiResponseWithErrors(format, all_results, errors) ==
  IF format = "json"
  THEN [format |-> "json", body |-> "object",
        has_error_key |-> errors # <<>>,
        error |-> IF errors # <<>> THEN Join(errors) ELSE None,
        results |-> all_results]
  ELSE IF errors # <<>>
  THEN [format |-> "markdown", body |-> "**Error:**", has_error_key |-> FALSE,
        error |-> Join(errors), results |-> <<>>]
  ELSE IF all_results = <<>>
  THEN [format |-> "markdown", body |-> "No results found.",
        has_error_key |-> FALSE, error |-> None, results |-> <<>>]
  ELSE [format |-> "markdown", body |-> "results", has_error_key |-> FALSE,
        error |-> None, results |-> all_results]

\* lines 327-354
MultiResponse(format, all_results, errors) ==
  IF format = "json"
  THEN [format |-> "json", body |-> "object",
        has_error_key |-> (errors # <<>> /\ all_results = <<>>),
        error |-> IF errors # <<>> /\ all_results = <<>> THEN Join(errors) ELSE None,
        results |-> all_results]
  ELSE IF all_results = <<>>
  THEN IF errors # <<>>
       THEN [format |-> "markdown", body |-> "**Error:**", has_error_key |-> FALSE,
             error |-> Join(errors), results |-> <<>>]
       ELSE [format |-> "markdown", body |-> "No results found.",
             has_error_key |-> FALSE, error |-> None, results |-> <<>>]
  ELSE [format |-> "markdown", body |-> "results", has_error_key |-> FALSE,
        error |-> None, results |-> all_results]

MultiIdle ==
  [pc |-> "idle", providers |-> <<>>, providers_given |-> FALSE,
   deduplicate |-> FALSE, format |-> "",
   available |-> <<>>, providers_to_use |-> <<>>, provider_instances |-> <<>>,
   tasks |-> <<>>, arrival |-> <<>>, closed |-> <<>>,
   merged |-> <<>>, all_results |-> <<>>, providers_used |-> <<>>,
   errors |-> <<>>, response |-> NoResponse]

\* lines 267-301: the candidates, the instances, one task per instance.
\* The arguments format and deduplicate are drawn where the code first reads
\* them: format at line 278 or 327, deduplicate at line 317.  The argument
\* providers is None (providers_given FALSE) or a list, which may be empty.
MultiBegin ==
  /\ multi.pc = "idle"
  /\ \E providers \in SubsetArgs, providers_given \in BOOLEAN :
       LET available == GetEnabledProviders(config)
           providers_to_use == ProvidersToUse(providers, available)
           provider_instances == ProviderInstances(providers_to_use, config)
           called == [multi EXCEPT !.providers = providers,
                                   !.providers_given =
                                      IF providers # <<>> THEN TRUE
                                      ELSE providers_given,
                                   !.available = available,
                                   !.providers_to_use = providers_to_use]
       IN  IF providers_to_use = <<>>
           THEN \E format \in Formats :
                  multi' = [called EXCEPT
                    !.pc = "done", !.format = format,
                    !.response = FormatEarlyReturn(format, NoProvidersAvailable)]
           ELSE multi' = [called EXCEPT
                  !.pc = "gather",
                  !.provider_instances = provider_instances,
                  !.tasks = [i \in 1..Len(provider_instances) |->
                               Pending(provider_instances[i])]]
  /\ UNCHANGED <<config, cache, web, code, adapter>>

\* one task runs search_provider to its end, at whatever time its upstream
\* answers; the finally clause closes its provider
MultiTaskSettle ==
  /\ multi.pc = "gather"
  /\ \E i \in 1..Len(multi.tasks) :
       /\ multi.tasks[i].st = "pending"
       /\ \E outcome \in SearchOutcomes(multi.tasks[i].name) :
            multi' = [multi EXCEPT
              !.tasks[i] = SearchProvider(multi.tasks[i].name, outcome),
              !.arrival = Append(@, i),
              !.closed = Append(@, i)]
  /\ UNCHANGED <<config, cache, web, code, adapter>>

\* asyncio.gather(*tasks): returns the tasks' values in the order of its
\* arguments once all are done; re-raises the first exception a task raises
\* without waiting for the others
GatherRaises(tasks) == \E i \in 1..Len(tasks) : tasks[i].st = "raised"

GatherReturns(tasks) == \A i \in 1..Len(tasks) : tasks[i].st = "done"

GatherFirstCompleted(tasks) == \E i \in 1..Len(tasks) : tasks[i].st # "pending"

GatherSettled(tasks) == IF GatherRaises(tasks) THEN TRUE ELSE GatherReturns(tasks)

GatherAsCompleted(tasks, arrival) == [k \in 1..Len(arrival) |-> tasks[arrival[k]]]

\* the list gather returns: one value per argument, in the arguments' order
GatherResults(tasks, arrival) == tasks

\* lines 302-354
MultiGather ==
  /\ multi.pc = "gather"
  /\ GatherSettled(multi.tasks)
  /\ IF GatherRaises(multi.tasks)
     THEN multi' = [multi EXCEPT !.pc = "raised"]
     ELSE \E deduplicate \in BOOLEAN, format \in Formats :
          LET results_by_provider == GatherResults(multi.tasks, multi.arrival)
              merged == AllResults(results_by_provider)
              all_results == Deduplicate(deduplicate, merged)
              errors == Errors(results_by_provider)
          IN  multi' = [multi EXCEPT
                !.pc = "done",
                !.deduplicate = deduplicate,
                !.format = format,
                !.merged = merged,
                !.all_results = all_results,
                !.providers_used = ProvidersUsed(results_by_provider),
                !.errors = errors,
                !.response = MultiResponse(format, all_results, errors)]
  /\ UNCHANGED <<config, cache, web, code, adapter>>

(***************************************************************************)
(* Strings of tools/code_search.py are sequences of one-character strings. *)
(***************************************************************************)
StartsWith(s, prefix) ==
  Len(s) >= Len(prefix) /\ SubSeq(s, 1, Len(prefix)) = prefix

EndsWith(s, suffix) ==
  Len(s) >= Len(suffix) /\ SubSeq(s, Len(s) - Len(suffix) + 1, Len(s)) = suffix

RECURSIVE LStrip(_, _)
LStrip(s, chars) ==
  IF s # <<>> /\ Head(s) \in chars THEN LStrip(Tail(s), chars) ELSE s

RECURSIVE RStrip(_, _)
RStrip(s, chars) ==
  IF s # <<>> /\ s[Len(s)] \in chars
  THEN RStrip(SubSeq(s, 1, Len(s) - 1), chars) ELSE s

\* str.strip(chars)
Strip(s, chars) == RStrip(LStrip(s, chars), chars)

\* the first position >= i of a character of chars, Len(s) + 1 when none
RECURSIVE Find(_, _, _)
Find(s, chars, i) ==
  IF i > Len(s) THEN Len(s) + 1
  ELSE IF s[i] \in chars THEN i ELSE Find(s, chars, i + 1)

\* str.split(sep) for a one-character sep
RECURSIVE Split(_, _)
Split(s, sep) ==
  LET i == Find(s, {sep}, 1)
  IN  IF i > Len(s) THEN <<s>>
      ELSE <<SubSeq(s, 1, i - 1)>> \o Split(SubSeq(s, i + 1, Len(s)), sep)

\* str.split(sep, 1)
SplitOnce(s, sep) ==
  LET i == Find(s, {sep}, 1)
  IN  IF i > Len(s) THEN <<s>>
      ELSE <<SubSeq(s, 1, i - 1), SubSeq(s, i + 1, Len(s))>>

RemoveSuffix(s, suffix) ==
  IF suffix # <<>> /\ EndsWith(s, suffix)
  THEN SubSeq(s, 1, Len(s) - Len(suffix)) ELSE s

\* str.replace(old, new) for a one-character old
RECURSIVE Replace(_, _, _)
Replace(s, old, new) ==
  IF s = <<>> THEN <<>>
  ELSE (IF Head(s) = old THEN new ELSE <<Head(s)>>) \o Replace(Tail(s), old, new)

Whitespace == {" ", "\n", "\t", "\r"}

Slash == <<"/">>

DotGit == <<".", "g", "i", "t">>

GitAt == <<"g", "i", "t", "@">>

Http == <<"h", "t", "t", "p", ":", "/", "/">>

Https == <<"h", "t", "t", "p", "s", ":", "/", "/">>

GithubCom == <<"g", "i", "t", "h", "u", "b", ".", "c", "o", "m">>

\* urlparse(url) for a url that starts with http:// or https://: the netloc
\* ends at the first "/", "?" or "#", the path at the first "?" or "#", and
\* ";params" of the last path segment are split off
UrlNetloc(url) ==
  LET rest == SubSeq(url, Find(url, {":"}, 1) + 3, Len(url))
  IN  SubSeq(rest, 1, Find(rest, {"/", "?", "#"}, 1) - 1)

RECURSIVE LastSlash(_, _)
LastSlash(s, i) ==
  IF i = 0 THEN 0 ELSE IF s[i] = "/" THEN i ELSE LastSlash(s, i - 1)

UrlPath(url) ==
  LET rest == SubSeq(url, Find(url, {":"}, 1) + 3, Len(url))
      from == Find(rest, {"/", "?", "#"}, 1)
      tail == SubSeq(rest, from, Len(rest))
      nofrag == SubSeq(tail, 1, Find(tail, {"?", "#"}, 1) - 1)
      slash == LastSlash(nofrag, Len(nofrag))
  IN  IF slash = 0 THEN nofrag
      ELSE SubSeq(nofrag, 1, Find(nofrag, {";"}, slash) - 1)

(***************************************************************************)
(* _parse_repo (lines 17-39): [ok |-> FALSE] is a raised ValueError.       *)
(***************************************************************************)
InvalidRepo == [ok |-> FALSE, full_name |-> <<>>, clone_url |-> <<>>]

RepoFromKeepsSuffix(host, path) ==
  LET parts == Split(Strip(path, {"/"}), "/")
  IN  IF Len(parts) < 2 THEN InvalidRepo
      ELSE LET owner == parts[1]
               name == parts[2]
           IN  [ok |-> TRUE,
                full_name |-> owner \o Slash \o name,
                clone_url |-> Https \o host \o Slash \o owner \o Slash \o name
                                \o DotGit]

RepoFrom(host, path) ==
  LET parts == Split(Strip(path, {"/"}), "/")
  IN  IF Len(parts) < 2 THEN InvalidRepo
      ELSE LET owner == parts[1]
               name == RemoveSuffix(parts[2], DotGit)
           IN  [ok |-> TRUE,
                full_name |-> owner \o Slash \o name,
                clone_url |-> Https \o host \o Slash \o owner \o Slash \o name
                                \o DotGit]

ParseRepo(arg) ==
  LET repo == Strip(arg, Whitespace)
  IN  IF \/ StartsWith(repo, <<"/">>)
         \/ StartsWith(repo, <<".", "/">>)
         \/ StartsWith(repo, <<".", ".", "/">>)
         \/ StartsWith(repo, <<"~">>)
      THEN InvalidRepo
      ELSE IF StartsWith(repo, GitAt)
      THEN LET halves == SplitOnce(repo, ":")
           IN  IF Len(halves) < 2 THEN InvalidRepo
               ELSE RepoFrom(SplitOnce(halves[1], "@")[2], halves[2])
      ELSE IF StartsWith(repo, Http) \/ StartsWith(repo, Https)
      THEN RepoFrom(UrlNetloc(repo), UrlPath(repo))
      ELSE RepoFrom(GithubCom, repo)

\* _get_cache_path (lines 42-44), relative to REPO_CACHE_DIR
GetCachePath(full_name) == Replace(full_name, "/", <<"_", "_">>)

(***************************************************************************)
(* _clone_repo (lines 47-59).  cache holds the directories that exist      *)
(* under REPO_CACHE_DIR, each with the url it is cloned from and whether   *)
(* its clone is complete.                                                  *)
(***************************************************************************)
CacheExists(path) == \E e \in cache : e.path = path

CloneOutcomes == {"cloned", "CalledProcessError"}

CacheEntry(c, complete) ==
  [path |-> GetCachePath(c.repo_full), clone_url |-> c.clone_url,
   complete |-> complete]

(***************************************************************************)
(* The code-search sources (lines 78-108).                                 *)
(***************************************************************************)
\* DeepWikiProvider.ask_question returns a text, possibly empty
Answers == {<<>>, <<[text |-> "answer"]>>}

Answered(text) == [kind |-> "ok", results |-> text, status |-> 0, exc |-> ""]

AskOutcomes == {Answered(a) : a \in Answers} \cup Failures

\* _noodl_search: [] when the noodl executable is missing or exits non-zero,
\* the parsed results otherwise; json.loads raises on malformed output
JSONDecodeError ==
  [kind |-> "other", results |-> <<>>, status |-> 0, exc |-> "JSONDecodeError"]

NoodlOutcomes ==
  {Returned(rs) : rs \in ResultLists("noodl")} \cup {JSONDecodeError}

\* _format_results_section (lines 62-75): "" (here <<>>) for no results
FormatResultsSection(title, results) ==
  IF results = <<>> THEN <<>>
  ELSE <<[title |-> title, results |-> results]>>

(***************************************************************************)
(* search_code (lines 111-144).  code is one request; code.peer is a       *)
(* second request for the same repo that runs beside it, followed through  *)
(* lines 114-116.                                                          *)
(***************************************************************************)
\* the `repo` argument; <<>> is None or ""
RepoArgs ==
  { <<>>,
    <<"a", "/", "b">>,
    <<" ", "a", "/", "b", ".", "g", "i", "t">>,
    <<"/", "a", "/", "b">>,
    <<".", "/", "b">>,
    <<".", ".", "/", "a", "/", "b">>,
    <<"~", "/", "b">>,
    <<"a">>,
    <<"a", "/", "/", "b">>,
    <<"a", "/", ".", "g", "i", "t">>,
    Https \o <<"h", "/", "a", "/", "b">>,
    Https \o <<"h", "/", "a", "/", "b", ".", "g", "i", "t">>,
    Http \o <<"h", "/", "a", "/", "b">>,
    GitAt \o <<"h", ":", "a", "/", "b", ".", "g", "i", "t">>,
    GitAt \o <<"h">>,
    Https \o GithubCom \o <<"/", "a", "/", "b">>,
    Https \o GithubCom \o <<"/", "a", "/", "b", ".", "g", "i", "t">>,
    GitAt \o GithubCom \o <<":", "a", "/", "b", ".", "g", "i", "t">> }

NoReport == [body |-> "", sections |-> <<>>]

PeerIdle ==
  [pc |-> "idle", repo_full |-> None, clone_url |-> None, repo_path |-> None,
   raised_by |-> "", found |-> FALSE, stderr |-> "", sequential |-> FALSE]

CodeIdle ==
  [pc |-> "idle", repo |-> <<>>, repo_full |-> None, clone_url |-> None,
   repo_path |-> None, sections |-> <<>>, queried |-> <<>>,
   raised_by |-> "", found |-> FALSE, stderr |-> "", report |-> NoReport,
   in_flight |-> {}, created |-> <<>>, closed |-> <<>>, returned |-> <<>>,
   clones |-> <<>>, peer |-> PeerIdle]

RaisedAndSwallowed(c, by) == [c EXCEPT !.pc = "exa"]

Raised(c, by) == [c EXCEPT !.pc = "raised", !.raised_by = by]

\* lines 112-115
CodeBegin ==
  /\ code.pc = "idle"
  /\ \E repo \in RepoArgs :
       IF repo = <<>>
       THEN code' = [code EXCEPT !.pc = "exa"]
       ELSE LET parsed == ParseRepo(repo)
            IN  IF parsed.ok
                THEN code' = [code EXCEPT !.pc = "clone", !.repo = repo,
                                          !.repo_full = parsed.full_name,
                                          !.clone_url = parsed.clone_url]
                ELSE code' = Raised([code EXCEPT !.repo = repo], "_parse_repo")
  /\ UNCHANGED <<config, cache, web, multi, adapter>>

\* a second search_code call with the same `repo`, arriving while the first
\* is anywhere past line 115; sequential records that the first had left
\* _clone_repo by then
PeerBegin ==
  /\ code.pc # "idle"
  /\ code.repo_full # None
  /\ code.peer.pc = "idle"
  /\ code' = [code EXCEPT !.peer =
                [PeerIdle EXCEPT !.pc = "clone",
                                 !.repo_full = code.repo_full,
                                 !.clone_url = code.clone_url,
                                 !.sequential =
                                    code.pc \notin {"clone", "git", "cloning"}]]
  /\ UNCHANGED <<config, cache, web, multi, adapter>>

Requests == {"self", "peer"}

Request(who) == IF who = "self" THEN code ELSE code.peer

WithRequest(who, r) == IF who = "self" THEN r ELSE [code EXCEPT !.peer = r]

CloneRepoUnchecked(who) ==
  /\ Request(who).pc = "clone"
  /\ code' = WithRequest(who, [Request(who) EXCEPT !.pc = "git"])
  /\ UNCHANGED <<config, cache, web, multi, adapter>>

\* lines 48-50: a directory that exists is returned as it is; found keeps
\* what cache_path.exists() answered
CloneRepoCheck(who) ==
  /\ Request(who).pc = "clone"
  /\ LET cache_path == GetCachePath(Request(who).repo_full)
     IN  IF CacheExists(cache_path)
         THEN code' = WithRequest(who,
                [Request(who) EXCEPT !.pc = "exa", !.repo_path = cache_path,
                                     !.found = TRUE])
         ELSE code' = WithRequest(who, [Request(who) EXCEPT !.pc = "git"])
  /\ UNCHANGED <<config, cache, web, multi, adapter>>

\* lines 52-58: git clone starts in the worker thread.  git refuses a
\* destination that exists and is not empty (exit status 128, which
\* check=True turns into CalledProcessError); otherwise it creates the
\* directory and fills it.  stderr is the diagnostic the error carries.
CloneRepoRun(who) ==
  /\ Request(who).pc = "git"
  /\ LET started == [code EXCEPT !.clones = Append(@, who)]
         ran(r) == IF who = "self" THEN r ELSE [started EXCEPT !.peer = r]
         c == IF who = "self" THEN started ELSE started.peer
     IN  IF CacheExists(GetCachePath(c.repo_full))
         THEN /\ code' = ran(Raised([c EXCEPT !.stderr = "already exists"],
                                     "_clone_repo"))
              /\ UNCHANGED cache
         ELSE /\ code' = ran([c EXCEPT !.pc = "cloning"])
              /\ cache' = cache \cup {CacheEntry(c, FALSE)}
  /\ UNCHANGED <<config, web, multi, adapter>>

\* lines 53-59: git clone exits.  On a non-zero status git has removed the
\* directory it created.
CloneRepoExit(who) ==
  /\ Request(who).pc = "cloning"
  /\ LET cache_path == GetCachePath(Request(who).repo_full)
         partial == CacheEntry(Request(who), FALSE)
     IN  \E outcome \in CloneOutcomes :
           IF outcome = "cloned"
           THEN /\ code' = WithRequest(who,
                     [Request(who) EXCEPT !.pc = "exa", !.repo_path = cache_path])
                /\ cache' = (cache \ {partial})
                              \cup {CacheEntry(Request(who), TRUE)}
           ELSE /\ code' = WithRequest(who,
                     Raised([Request(who) EXCEPT !.stderr = "fatal"],
                            "_clone_repo"))
                /\ cache' = cache \ {partial}
  /\ UNCHANGED <<config, web, multi, adapter>>

Sources == <<"exa", "deepwiki", "grep", "noodl">>

\* the helpers that close their provider in a finally clause (lines 84-85,
\* 92-93, 100-101); _noodl_search (lines 104-108) never calls close
ClosesProvider(source) == source # "noodl"

CodeCallTogether ==
  /\ code.pc \in Range(Sources)
  /\ code.pc \notin code.in_flight
  /\ code' = [code EXCEPT !.in_flight = @ \cup {code.pc, "grep"},
                          !.created = Append(@, code.pc)]
  /\ UNCHANGED <<config, cache, web, multi, adapter>>

\* lines 81, 89, 97, 105: the helper is entered, its provider constructed
\* and its call awaited
CodeCall ==
  /\ code.pc \in Range(Sources)
  /\ code.pc \notin code.in_flight
  /\ code' = [code EXCEPT !.in_flight = @ \cup {code.pc},
                          !.created = Append(@, code.pc)]
  /\ UNCHANGED <<config, cache, web, multi, adapter>>

\* what search_code does with the outcome of one awaited source: the helpers
\* have try/finally and no except clause, and neither has search_code
AfterSource(c, source, outcome, section, next) ==
  LET left == [c EXCEPT !.queried = Append(@, source),
                        !.in_flight = @ \ {source},
                        !.closed = IF ClosesProvider(source)
                                   THEN Append(@, source) ELSE @]
  IN  IF outcome.kind = "ok"
      THEN [left EXCEPT !.sections = @ \o section,
                        !.returned = Append(@, [source |-> source,
                                                results |-> outcome.results]),
                        !.pc = next]
      ELSE Raised(left, source)

\* lines 120-123
CodeExa ==
  /\ code.pc = "exa"
  /\ "exa" \in code.in_flight
  /\ \E outcome \in SearchOutcomes("exa_mcp") :
       code' = AfterSource(code, "exa", outcome,
                 FormatResultsSection("Exa Code Context", outcome.results),
                 IF code.repo_full # None THEN "deepwiki" ELSE "grep")
  /\ UNCHANGED <<config, cache, web, multi, adapter>>

\* lines 125-128
CodeDeepWiki ==
  /\ code.pc = "deepwiki"
  /\ "deepwiki" \in code.in_flight
  /\ \E outcome \in AskOutcomes :
       code' = AfterSource(code, "deepwiki", outcome,
                 IF outcome.results # <<>>
                 THEN <<[title |-> "DeepWiki", results |-> outcome.results]>>
                 ELSE <<>>,
                 "grep")
  /\ UNCHANGED <<config, cache, web, multi, adapter>>

\* lines 130-133
CodeGrep ==
  /\ code.pc = "grep"
  /\ "grep" \in code.in_flight
  /\ \E outcome \in SearchOutcomes("grep_app") :
       code' = AfterSource(code, "grep", outcome,
                 FormatResultsSection("grep.app", outcome.results),
                 IF code.repo_path # None THEN "noodl" ELSE "return")
  /\ UNCHANGED <<config, cache, web, multi, adapter>>

\* lines 135-139: _noodl_search in a worker thread
CodeNoodl ==
  /\ code.pc = "noodl"
  /\ "noodl" \in code.in_flight
  /\ \E outcome \in NoodlOutcomes :
       code' = AfterSource(code, "noodl", outcome,
                 FormatResultsSection("Noodl", outcome.results), "return")
  /\ UNCHANGED <<config, cache, web, multi, adapter>>

BlankLine == [title |-> "\n\n", results |-> <<>>]

\* "\n\n".join(sections)
RECURSIVE JoinSections(_)
JoinSections(sections) ==
  IF Len(sections) <= 1 THEN sections
  ELSE <<sections[1], BlankLine>> \o JoinSections(Tail(sections))

ReportOfJoin(sections) ==
  [body |-> IF sections = <<>> THEN "" ELSE "sections",
   sections |-> JoinSections(sections)]

\* lines 141-144
Report(sections) ==
  IF sections = <<>> THEN [body |-> "No results found.", sections |-> <<>>]
  ELSE [body |-> "sections", sections |-> JoinSections(sections)]

CodeReturn ==
  /\ code.pc = "return"
  /\ code' = [code EXCEPT !.pc = "done", !.report = Report(code.sections)]
  /\ UNCHANGED <<config, cache, web, multi, adapter>>

(***************************************************************************)
(* The adapters' normalization (providers/).  A value an upstream JSON     *)
(* item carries under a key is absent, null or a string; an item that is   *)
(* no JSON object at all has dict = FALSE.                                 *)
(***************************************************************************)
\* longest raw list an upstream service answers with
MaxItems == 2
\* longest text (in lines) the Exa MCP endpoint answers with
MaxLines == 4

JsonAbsent == [kind |-> "absent", str |-> ""]

JsonNull == [kind |-> "null", str |-> ""]

JsonStr(s) == [kind |-> "str", str |-> s]

RawItems ==
  {[dict |-> TRUE, title |-> t, url |-> u, link |-> l, content |-> c, snippet |-> s] :
     t \in {JsonAbsent, JsonNull, JsonStr("t")},
     u \in {JsonAbsent, JsonNull, JsonStr(""), JsonStr("u")},
     l \in {JsonAbsent, JsonStr("l")},
     c \in {JsonAbsent, JsonStr("c")},
     s \in {JsonAbsent, JsonStr("s")}}
    \cup {[dict |-> FALSE, title |-> JsonAbsent, url |-> JsonAbsent,
            link |-> JsonAbsent, content |-> JsonAbsent, snippet |-> JsonAbsent]}

\* dict.get(key, default)
DictGet(item, key, default) ==
  IF item[key].kind = "absent" THEN default ELSE item[key]

\* bool(value) of a JSON value
Truthy(value) == value.kind = "str" /\ value.str # ""

\* a or b
OrElse(a, b) == IF Truthy(a) THEN a ELSE b

\* the keyword arguments each _normalize_results passes to SearchResult:
\* base.py 93-96, serper.py 53-56, tavily.py 70-73
ResultArgs(name, item) ==
  IF name = "serper"
  THEN [title |-> DictGet(item, "title", JsonStr("")),
        url |-> DictGet(item, "link", JsonStr("")),
        content |-> DictGet(item, "snippet", JsonStr(""))]
  ELSE IF name = "tavily"
  THEN [title |-> DictGet(item, "title", JsonStr("")),
        url |-> DictGet(item, "url", JsonStr("")),
        content |-> DictGet(item, "content", JsonStr(""))]
  ELSE [title |-> DictGet(item, "title", JsonStr("")),
        url |-> OrElse(DictGet(item, "url", JsonNull),
                       DictGet(item, "link", JsonStr(""))),
        content |-> OrElse(DictGet(item, "content", JsonNull),
                           DictGet(item, "snippet", JsonStr("")))]

\* pydantic accepts the arguments of SearchResult when each is a string
Validates(args) ==
  args.title.kind = "str" /\ args.url.kind = "str" /\ args.content.kind = "str"

NewSearchResult(args, source) ==
  [title |-> args.title.str, url |-> args.url.str,
   content |-> args.content.str, source |-> source]

\* _normalize_results: item.get on something that is no dict and a failed
\* validation raise inside the try and the item is skipped
RECURSIVE NormalizeResults(_, _)
NormalizeResults(name, raw_results) ==
  IF raw_results = <<>> THEN <<>>
  ELSE LET item == Head(raw_results)
           rest == NormalizeResults(name, Tail(raw_results))
       IN  IF ~item.dict THEN rest
           ELSE IF ~Validates(ResultArgs(name, item)) THEN rest
           ELSE IF ResultArgs(name, item).url.str # ""
           THEN <<NewSearchResult(ResultArgs(name, item), name)>> \o rest
           ELSE rest

(***************************************************************************)
(* GrepAppProvider.code_search (providers/grep_app.py 23-52).              *)
(***************************************************************************)
GrepMaxResults == 10

\* the hits of an answer; the "content" of a hit is absent, null or an
\* object with a "snippet"
GrepHits ==
  {[dict |-> TRUE, repo |-> r, branch |-> b, path |-> p, content |-> c] :
     r \in {JsonAbsent, JsonStr("a/b"), JsonStr("c/d")},
     b \in {JsonAbsent, JsonStr("main")},
     p \in {JsonAbsent, JsonStr("f.py")},
     c \in {[kind |-> "absent", snippet |-> JsonAbsent],
            [kind |-> "null", snippet |-> JsonAbsent]}
             \cup {[kind |-> "dict", snippet |-> s] :
                     s \in {JsonAbsent, JsonNull, JsonStr("x")}}}
    \cup {[dict |-> FALSE, repo |-> JsonAbsent, branch |-> JsonAbsent,
            path |-> JsonAbsent,
            content |-> [kind |-> "absent", snippet |-> JsonAbsent]]}

\* s[:n] and s[n:]
UpTo(s, n) == SubSeq(s, 1, IF Len(s) < n THEN Len(s) ELSE n)

From(s, n) == SubSeq(s, n + 1, Len(s))

\* lines 37-48 for one hit; hit.get raises AttributeError on a hit that is
\* no dict, .get on a null content and .strip on a null snippet
GrepHitRaises(hit) ==
  IF ~hit.dict THEN TRUE
  ELSE IF hit.content.kind = "null" THEN TRUE
  ELSE hit.content.kind = "dict" /\ hit.content.snippet.kind = "null"

GrepHitResult(hit) ==
  LET hit_repo == DictGet(hit, "repo", JsonStr("")).str
      branch == DictGet(hit, "branch", JsonStr("master")).str
      path == DictGet(hit, "path", JsonStr("")).str
      snippet == IF hit.content.kind = "absent" THEN ""
                 ELSE DictGet(hit.content, "snippet", JsonStr("")).str
  IN  [title |-> <<hit_repo, "/", path>>,
       url |-> <<"https://github.com/", hit_repo, "/blob/", branch, "/", path>>,
       content |-> snippet, source |-> "grep_app"]

GrepCodeSearch(hits, repo, max_results) ==
  IF Truthy(repo) /\ \E i \in 1..Len(hits) : ~hits[i].dict
  THEN [ok |-> FALSE, results |-> <<>>]
  ELSE LET wanted(hit) == DictGet(hit, "repo", JsonNull) = repo
           kept == IF Truthy(repo) THEN SelectSeq(hits, wanted) ELSE hits
           first == UpTo(kept, max_results)
       IN  IF \E i \in 1..Len(first) : GrepHitRaises(first[i])
           THEN [ok |-> FALSE, results |-> <<>>]
           ELSE [ok |-> TRUE,
                 results |-> [i \in 1..Len(first) |-> GrepHitResult(first[i])]]

(***************************************************************************)
(* ExaMcpProvider._parse_search_results (providers/exa_mcp.py 135-222):    *)
(* the text is a sequence of one-character strings.                        *)
(***************************************************************************)
FirstChunk == 100

ContentLimit == 500

TitleTag == <<"T", "i", "t", "l", "e", ":">>

UrlTag == <<"U", "R", "L", ":">>

TextTag == <<"T", "e", "x", "t", ":">>

HttpWord == <<"h", "t", "t", "p">>

\* "grave" stands for the grave accent (U+0060), which a TLA+ string
\* cannot hold
Fence == <<"grave", "grave", "grave">>

HeaderMark == <<"\n", "#", "#", " ">>

\* sub in s
Contains(s, sub) ==
  \E i \in 1..(Len(s) - Len(sub) + 1) : SubSeq(s, i, i + Len(sub) - 1) = sub

\* sep.join(parts) for a one-character sep
RECURSIVE JoinWith(_, _)
JoinWith(parts, sep) ==
  IF parts = <<>> THEN <<>>
  ELSE IF Len(parts) = 1 THEN parts[1]
  ELSE parts[1] \o <<sep>> \o JoinWith(Tail(parts), sep)

\* re.split(sep, s) for a literal sep
RECURSIVE SplitOn(_, _)
SplitOn(s, sep) ==
  IF ~Contains(s, sep) THEN <<s>>
  ELSE LET i == CHOOSE i \in 1..(Len(s) - Len(sep) + 1) :
                  /\ SubSeq(s, i, i + Len(sep) - 1) = sep
                  /\ \A j \in 1..(i - 1) : SubSeq(s, j, j + Len(sep) - 1) # sep
       IN  <<SubSeq(s, 1, i - 1)>> \o SplitOn(From(s, i + Len(sep) - 1), sep)

\* a dict with string keys is a function on its keys, the empty dict <<>>
DictSet(d, key, value) ==
  [k \in DOMAIN d \cup {key} |-> IF k = key THEN value ELSE d[k]]

\* d.get(key, "")
DictGetStr(d, key) == IF key \in DOMAIN d THEN d[key] ELSE <<>>

\* lines 154-159 and 171-176
ExaResult(current_result) ==
  [title |-> DictGetStr(current_result, "title"),
   url |-> DictGetStr(current_result, "url"),
   content |-> UpTo(DictGetStr(current_result, "content"), ContentLimit),
   source |-> "exa_mcp"]

\* lines 149-177: the loop over the lines and the last result
RECURSIVE ParseLines(_, _, _)
ParseLines(lines, current_result, results) ==
  LET saved == IF DictGetStr(current_result, "url") # <<>>
               THEN Append(results, ExaResult(current_result)) ELSE results
  IN  IF lines = <<>> THEN saved
      ELSE LET line == Strip(Head(lines), Whitespace)
           IN  IF StartsWith(line, TitleTag)
               THEN ParseLines(Tail(lines),
                      DictSet(<<>>, "title", Strip(From(line, 6), Whitespace)),
                      saved)
               ELSE IF StartsWith(line, UrlTag)
               THEN ParseLines(Tail(lines),
                      DictSet(current_result, "url",
                              Strip(From(line, 4), Whitespace)), results)
               ELSE IF StartsWith(line, TextTag)
               THEN ParseLines(Tail(lines),
                      DictSet(current_result, "content",
                              Strip(From(line, 5), Whitespace)), results)
               ELSE IF DictGetStr(current_result, "content") # <<>>
               THEN ParseLines(Tail(lines),
                      DictSet(current_result, "content",
                              current_result["content"] \o <<" ">> \o line), results)
               ELSE ParseLines(Tail(lines), current_result, results)

\* lines 204-211: the lines of a section after its title
RECURSIVE ScanSection(_, _, _, _)
ScanSection(lines, url, content_lines, in_code_block) ==
  IF lines = <<>> THEN [url |-> url, content_lines |-> content_lines]
  ELSE LET line == Head(lines)
           stripped == Strip(line, Whitespace)
       IN  IF StartsWith(stripped, HttpWord)
           THEN ScanSection(Tail(lines), stripped, content_lines, in_code_block)
           ELSE IF stripped = Fence
           THEN ScanSection(Tail(lines), url, content_lines, ~in_code_block)
           ELSE IF in_code_block \/ stripped # <<>>
           THEN ScanSection(Tail(lines), url, Append(content_lines, line),
                            in_code_block)
           ELSE ScanSection(Tail(lines), url, content_lines, in_code_block)

\* lines 188-220: one section gives one result or none
SectionResults(section) ==
  IF Strip(section, Whitespace) = <<>> THEN <<>>
  ELSE LET lines == Split(Strip(section, Whitespace), "\n")
           title == Strip(LStrip(lines[1], {"#"}), Whitespace)
           scan == ScanSection(Tail(lines), <<>>, <<>>, FALSE)
       IN  IF scan.url # <<>> /\ title # <<>>
           THEN <<[title |-> title, url |-> scan.url,
                   content |-> UpTo(JoinWith(scan.content_lines, "\n"), ContentLimit),
                   source |-> "exa_mcp"]>>
           ELSE <<>>

RECURSIVE SectionsResults(_)
SectionsResults(sections) ==
  IF sections = <<>> THEN <<>>
  ELSE SectionResults(Head(sections)) \o SectionsResults(Tail(sections))

\* lines 179-222
ParseCodeContextResults(text) == SectionsResults(SplitOn(text, HeaderMark))

\* lines 135-177
ParseSearchResults(text) ==
  LET first_chunk == UpTo(text, FirstChunk)
  IN  IF StartsWith(first_chunk, <<"#", "#">>) \/ Contains(first_chunk, HeaderMark)
      THEN ParseCodeContextResults(text)
      ELSE ParseLines(Split(text, "\n"), <<>>, <<>>)

\* lines of the texts the endpoint answers with
ExaLines ==
  { TitleTag \o <<" ", "A">>,
    TitleTag \o <<" ", "B">>,
    UrlTag \o <<" ">> \o Http \o <<"u">>,
    UrlTag \o <<" ">> \o Http \o <<"v">>,
    UrlTag,
    TextTag \o <<" ", "x">>,
    <<"#", "#", " ", "H">>,
    Http \o <<"w">>,
    Fence,
    <<"c">> }

(***************************************************************************)
(* One run of one adapter's parsing step on one upstream answer.           *)
(***************************************************************************)
AdapterIdle ==
  [pc |-> "idle", name |-> "", raw |-> <<>>, repo |-> JsonNull, results |-> <<>>]

Normalize ==
  /\ adapter.pc = "idle"
  /\ \E name \in {"base", "serper", "tavily"},
        raw_results \in SeqsUpTo(RawItems, MaxItems) :
       adapter' = [adapter EXCEPT !.pc = "done", !.name = name,
                                  !.raw = raw_results,
                                  !.results = NormalizeResults(name, raw_results)]
  /\ UNCHANGED <<config, cache, web, multi, code>>

ExaParse ==
  /\ adapter.pc = "idle"
  /\ \E text \in {JoinWith(lines, "\n") : lines \in SeqsUpTo(ExaLines, MaxLines)} :
       adapter' = [adapter EXCEPT !.pc = "done", !.name = "exa_mcp",
                                  !.raw = text,
                                  !.results = ParseSearchResults(text)]
  /\ UNCHANGED <<config, cache, web, multi, code>>

GrepSearch ==
  /\ adapter.pc = "idle"
  /\ \E hits \in SeqsUpTo(GrepHits, MaxItems),
        repo \in {JsonNull, JsonStr("a/b")} :
       LET found == GrepCodeSearch(hits, repo, GrepMaxResults)
       IN  adapter' = [adapter EXCEPT
             !.pc = IF found.ok THEN "done" ELSE "raised",
             !.name = "grep_app", !.raw = hits, !.repo = repo,
             !.results = found.results]
  /\ UNCHANGED <<config, cache, web, multi, code>>

(***************************************************************************)
(* The specifications: one request of each tool.                           *)
(***************************************************************************)
InitWeb ==
  /\ config \in ProvidersConfig(0..MaxWeight)
  /\ cache = {}
  /\ web = WebIdle
  /\ multi = MultiIdle
  /\ code = CodeIdle
  /\ adapter = AdapterIdle

NextWeb == WebBegin \/ WebTry \/ WebSettle \/ WebRespond

SpecWeb == InitWeb /\ [][NextWeb]_vars

InitMulti ==
  /\ config \in DefaultProvidersConfig
  /\ cache = {}
  /\ web = WebIdle
  /\ multi = MultiIdle
  /\ code = CodeIdle
  /\ adapter = AdapterIdle

NextMulti == MultiBegin \/ MultiTaskSettle \/ MultiGather

SpecMulti == InitMulti /\ [][NextMulti]_vars

\* a cache left by earlier requests: empty, or holding a/b
EarlierCaches ==
  { {},
    {[path |-> GetCachePath(<<"a", "/", "b">>),
      clone_url |-> Https \o GithubCom \o <<"/", "a", "/", "b">> \o DotGit,
      complete |-> TRUE]} }

\* search_code does not read the configuration
InitCode ==
  /\ config = [n \in ProviderNames |->
                 [weight |-> DefaultWeight(n), enabled |-> TRUE,
                  api_key |-> FALSE, api_keys |-> FALSE]]
  /\ cache \in EarlierCaches
  /\ web = WebIdle
  /\ multi = MultiIdle
  /\ code = CodeIdle
  /\ adapter = AdapterIdle

NextCode ==
  \/ CodeBegin
  \/ PeerBegin
  \/ \E who \in Requests : CloneRepoCheck(who)
  \/ \E who \in Requests : CloneRepoRun(who)
  \/ \E who \in Requests : CloneRepoExit(who)
  \/ CodeCall
  \/ CodeExa
  \/ CodeDeepWiki
  \/ CodeGrep
  \/ CodeNoodl
  \/ CodeReturn

SpecCode == InitCode /\ [][NextCode]_vars

\* the server with one request of any one of the three tools
\* serper's registration in each of its kinds; tavily and exa_mcp eligible
ServeConfigs ==
  {c \in DefaultProvidersConfig :
     c["tavily"].enabled /\ c["tavily"].api_key /\ c["exa_mcp"].enabled}

InitServe ==
  /\ config \in ServeConfigs
  /\ cache = {}
  /\ web = WebIdle
  /\ multi = MultiIdle
  /\ code = CodeIdle
  /\ adapter = AdapterIdle

ServeWeb == multi = MultiIdle /\ code = CodeIdle /\ NextWeb

ServeMulti == web = WebIdle /\ code = CodeIdle /\ NextMulti

ServeCode == web = WebIdle /\ multi = MultiIdle /\ NextCode

NextServe == ServeWeb \/ ServeMulti \/ ServeCode

SpecServe == InitServe /\ [][NextServe]_vars

\* the provider layer: one upstream answer through one adapter
InitAdapter ==
  /\ config = [n \in ProviderNames |->
                 [weight |-> DefaultWeight(n), enabled |-> TRUE,
                  api_key |-> FALSE, api_keys |-> FALSE]]
  /\ cache = {}
  /\ web = WebIdle
  /\ multi = MultiIdle
  /\ code = CodeIdle
  /\ adapter = AdapterIdle

NextAdapter == Normalize \/ ExaParse \/ GrepSearch

SpecAdapter == InitAdapter /\ [][NextAdapter]_vars

\* search_web as the tests call it, by keywords
NextCall == WebCall \/ WebTry \/ WebSettle \/ WebRespond

SpecCall == InitServe /\ [][NextCall]_vars

(***************************************************************************)
(* Properties.                                                             *)
(***************************************************************************)
Last(s) == s[Len(s)]

IsPrefix(s, t) == Len(s) <= Len(t) /\ SubSeq(t, 1, Len(s)) = s

\* the sources search_code has to query for the request it is serving
C1_Applicable ==
  <<"exa">> \o (IF code.repo_full # None THEN <<"deepwiki">> ELSE <<>>)
    \o <<"grep">> \o (IF code.repo_path # None THEN <<"noodl">> ELSE <<>>)

\* C1: search_code never raises because of a source (only resolving or
\* cloning the repo may raise), and a request that got past the repo step
\* ends having queried every applicable source, whichever of them failed.
C1_SourceFailuresContained ==
  /\ code.pc = "raised" => code.raised_by \in {"_parse_repo", "_clone_repo"}
  /\ code.pc \in {"done", "raised"} /\ code.raised_by \notin {"_parse_repo", "_clone_repo"}
       => code.queried = C1_Applicable

C2_Texts ==
  {"Invalid API key", "Access forbidden", "Rate limit exceeded", "Server error",
   "HTTP", "Timed out", "ValueError"}

\* C2: no task of search_multi raises: a failed task returns no results and
\* one classified message naming its own provider; and once the response is
\* built every task has run to completion and every result a task returned
\* is in the merged list and (by its url) in the response.
C2_TaskFailuresIsolated ==
  /\ multi.pc # "raised"
  /\ \A i \in 1..Len(multi.tasks) :
       LET t == multi.tasks[i]
       IN  /\ t.st # "raised"
           /\ t.name = multi.provider_instances[i]
           /\ t.error # None =>
                /\ t.results = <<>>
                /\ Len(t.error) = 1
                /\ t.error[1].provider = t.name
                /\ t.error[1].text \in C2_Texts
  /\ multi.pc = "done" =>
       \A i \in 1..Len(multi.tasks) :
         /\ multi.tasks[i].st = "done"
         /\ \A k \in 1..Len(multi.tasks[i].results) :
              /\ \E j \in 1..Len(multi.merged) :
                   multi.merged[j] = multi.tasks[i].results[k]
              /\ \E j \in 1..Len(multi.response.results) :
                   multi.response.results[j].url = multi.tasks[i].results[k].url

C2_Witness ==
  /\ multi.pc = "done"
  /\ Len(multi.tasks) = 3
  /\ multi.tasks[1].error # None
  /\ multi.tasks[2].results # <<>>
  /\ multi.tasks[3].error # None
  /\ multi.response.results # <<>>

\* C3: search_multi has a response (or has ended at all) only when every
\* launched task has settled: one task per instance, none pending.
C3_ResponseAfterAllSettled ==
  (multi.pc \in {"done", "raised"} \/ multi.response # NoResponse) =>
    /\ Len(multi.tasks) = Len(multi.provider_instances)
    /\ Len(multi.arrival) = Len(multi.tasks)
    /\ \A i \in 1..Len(multi.tasks) : multi.tasks[i].st = "done"

C3_Witness ==
  /\ multi.pc = "done"
  /\ Len(multi.tasks) = 3
  /\ multi.arrival = <<3, 1, 2>>
  /\ multi.tasks[3].results # <<>>
  /\ multi.tasks[1].error # None

\* enabled, credentialed and instantiable, stated per provider
C4_Eligible(n) ==
  /\ n \in ProviderNames
  /\ config[n].enabled
  /\ \/ n = "exa_mcp"
     \/ config[n].api_key
     \/ n = "tavily" /\ config[n].api_keys

C4_Candidates ==
  SelectSeq(IF multi.providers = <<>> THEN <<"serper", "tavily", "exa_mcp">>
            ELSE multi.providers, C4_Eligible)

\* the number of results of the tasks before task i
RECURSIVE C4_Before(_)
C4_Before(i) ==
  IF i <= 1 THEN 0 ELSE C4_Before(i - 1) + Len(multi.tasks[i - 1].results)

C4_NamedResults(n) ==
  LET named(t) == t.name = n
  IN  AllResults(SelectSeq(multi.tasks, named))

\* C4 as claimed: the merged results are the providers' results in the
\* iteration order of the enabled providers, for every subset.
C4_MergedInEnabledOrder ==
  multi.pc = "done" =>
    multi.merged = C4_NamedResults("serper") \o C4_NamedResults("tavily")
                     \o C4_NamedResults("exa_mcp")

\* C4 as amended: the merged results are the tasks' results in the order of
\* the candidate list, which is the subset's own order (repetitions kept)
\* restricted to eligible providers when a subset is given and the enabled
\* providers' order otherwise; the order in which the tasks completed does
\* not enter.
C4_MergedInCandidateOrder ==
  multi.pc = "done" =>
    /\ [i \in 1..Len(multi.tasks) |-> multi.tasks[i].name] = C4_Candidates
    /\ Len(multi.merged) = C4_Before(Len(multi.tasks) + 1)
    /\ \A i \in 1..Len(multi.tasks) :
         \A k \in 1..Len(multi.tasks[i].results) :
           multi.merged[C4_Before(i) + k] = multi.tasks[i].results[k]

C4_Witness ==
  /\ multi.pc = "done"
  /\ multi.providers = <<"tavily", "serper">>
  /\ multi.arrival = <<2, 1>>
  /\ Len(multi.merged) = 2
  /\ multi.merged[1].source = "tavily"
  /\ multi.merged[2].source = "serper"

\* the positions of merged that hold the first occurrence of their url
C5_Firsts ==
  {i \in 1..Len(multi.merged) :
     \A j \in 1..(i - 1) : multi.merged[j].url # multi.merged[i].url}

C5_Nth(k) ==
  CHOOSE i \in C5_Firsts : Cardinality({j \in C5_Firsts : j <= i}) = k

\* C5: with deduplicate the output has no two results of one url, is the
\* merged list cut down to the first occurrence of each url, in order, and
\* keeps every url; without it the output is the merged list.
C5_Deduplication ==
  multi.pc = "done" /\ multi.provider_instances # <<>> =>
    IF multi.deduplicate
    THEN /\ \A i, j \in 1..Len(multi.all_results) :
              i # j => multi.all_results[i].url # multi.all_results[j].url
         /\ Len(multi.all_results) = Cardinality(C5_Firsts)
         /\ \A k \in 1..Len(multi.all_results) :
              multi.all_results[k] = multi.merged[C5_Nth(k)]
         /\ {r.url : r \in Range(multi.merged)}
              = {r.url : r \in Range(multi.all_results)}
         /\ multi.response.results = multi.all_results
    ELSE /\ multi.all_results = multi.merged
         /\ multi.response.results = multi.merged

C5_Witness ==
  /\ multi.pc = "done"
  /\ multi.deduplicate
  /\ Len(multi.merged) = 3
  /\ Len(multi.all_results) = 2
  /\ multi.merged[1].url = multi.merged[3].url
  /\ multi.all_results[1].source = "serper"

C6_Failed ==
  LET failed(t) == t.error # None
  IN  SelectSeq(multi.tasks, failed)

\* C6: when search_multi has merged nothing, the response is the failed
\* providers' messages joined by "; " if any provider failed, and the no
\* results answer otherwise ("No results found." in markdown, an object
\* with no results and no error key in json); "No results found." is
\* answered only with no error and no result.
C6_EmptyMerge ==
  multi.pc = "done" /\ multi.providers_to_use # <<>> =>
    LET r == multi.response
        n == Len(C6_Failed)
    IN  /\ multi.all_results = <<>> /\ n > 0 =>
             /\ r.results = <<>>
             /\ Len(r.error) = 2 * n - 1
             /\ \A k \in 1..n : r.error[2 * k - 1] = C6_Failed[k].error[1]
             /\ \A k \in 1..(n - 1) : r.error[2 * k] = Separator
             /\ IF r.format = "json" THEN r.has_error_key
                ELSE r.body = "**Error:**"
        /\ multi.all_results = <<>> /\ n = 0 =>
             /\ r.results = <<>>
             /\ r.error = None
             /\ IF r.format = "json" THEN ~r.has_error_key
                ELSE r.body = "No results found."
        /\ r.body = "No results found." => n = 0 /\ multi.all_results = <<>>
        /\ n = Len(multi.tasks) => multi.all_results = <<>>

C6_Witness ==
  /\ multi.pc = "done"
  /\ Len(multi.tasks) = 3
  /\ Len(C6_Failed) = 3
  /\ multi.response.body = "**Error:**"
  /\ Len(multi.response.error) = 5

\* no registration is enabled with the credentials it needs
C7_NoneEligible ==
  \A n \in ProviderNames :
    ~(config[n].enabled /\ (n = "exa_mcp" \/ config[n].api_key \/ config[n].api_keys))

\* C7: with no eligible provider search_web ends at once with the no
\* providers configured error and no results, having built no try-sequence
\* and invoked no search; it does not raise.
C7_EmptyTable ==
  C7_NoneEligible /\ web.pc # "idle" =>
    /\ web.pc = "done"
    /\ web.response.error = NoProvidersConfigured
    /\ web.response.results = <<>>
    /\ IF web.response.format = "json" THEN web.response.has_error_key
       ELSE web.response.body = "**Error:**"
    /\ web.providers_to_try = <<>>
    /\ web.invoked = <<>>

C7_Witness == C7_NoneEligible /\ web.pc = "done" /\ web.response.format = "json"

C8_Position(n) == CHOOSE k \in 1..Len(web.weights) : web.weights[k] = n

\* C8: the try-sequence starts with the drawn provider, holds every key of
\* the weight table exactly once, and after its head is ordered by
\* descending weight, equal weights in the table's order.
C8_TrySequence ==
  web.pc \notin {"idle", "raised"} /\ web.weights # <<>> =>
    LET t == web.providers_to_try
    IN  /\ t[1] = web.selected
        /\ Len(t) = Len(web.weights)
        /\ Range(t) = Range(web.weights)
        /\ \A i, j \in 2..Len(t) :
             i < j =>
               \/ config[t[i]].weight > config[t[j]].weight
               \/ /\ config[t[i]].weight = config[t[j]].weight
                  /\ C8_Position(t[i]) < C8_Position(t[j])

C8_Witness ==
  /\ web.pc = "loop"
  /\ web.providers_to_try = <<"exa_mcp", "serper", "tavily">>
  /\ config["serper"].weight = config["tavily"].weight
  /\ config["exa_mcp"].weight < config["serper"].weight

C9_Instantiable ==
  LET made(n) == GetProviderInstance(n, config)
  IN  SelectSeq(web.providers_to_try, made)

\* C9: search_web invokes candidates in try-sequence order and none after
\* the first whose search returns; its response then carries that search's
\* results, names that provider alone and reports no error.
C9_FirstSuccessWins ==
  /\ IsPrefix(web.invoked, C9_Instantiable)
  /\ Len(web.providers_used) <= 1
  /\ web.providers_used # <<>> =>
       /\ web.pc \in {"break", "done"}
       /\ web.providers_used = <<Last(web.invoked)>>
  /\ web.pc = "done" /\ web.providers_used # <<>> =>
       /\ web.response.results = web.last_outcome.results
       /\ web.response.error = None
       /\ ~web.response.has_error_key
       /\ web.response.body # "**Error:**"

C9_Witness ==
  /\ web.pc = "done"
  /\ Len(web.providers_to_try) = 3
  /\ Len(web.invoked) = 2
  /\ web.providers_used = <<web.providers_to_try[2]>>
  /\ web.results = <<>>
  /\ web.response.body = "No results found."

\* the message search_web records for a failed search of provider n
C10_Message(n, o) ==
  CASE o.kind = "http" /\ o.status = 401 -> Msg(n, "Invalid API key", 0)
    [] o.kind = "http" /\ o.status = 403 -> Msg(n, "Access forbidden", 0)
    [] o.kind = "http" /\ o.status = 429 -> Msg(n, "Rate limit exceeded", 0)
    [] o.kind = "http" /\ o.status \notin {401, 403, 429} /\ o.status >= 500 ->
         Msg(n, "Server error", o.status)
    [] o.kind = "http" /\ o.status \notin {401, 403, 429} /\ o.status < 500 ->
         Msg(n, "HTTP", o.status)
    [] o.kind = "timeout" -> Msg(n, "Request timed out", 0)
    [] o.kind = "other" -> Msg(n, o.exc, 0)

\* C10: a failed search leaves its classified message as the latest error
\* and the loop goes on; when every candidate has failed the response has
\* no results and its error is the one message of the last candidate tried;
\* nothing is raised.
C10_LastErrorReported ==
  /\ web.pc # "raised"
  /\ web.pc = "loop" /\ web.invoked # <<>> =>
       /\ web.idx > 1
       /\ web.last_error = <<C10_Message(Last(web.invoked), web.last_outcome)>>
  /\ web.pc = "done" /\ web.invoked # <<>> /\ web.providers_used = <<>> =>
       /\ web.invoked = C9_Instantiable
       /\ web.response.results = <<>>
       /\ web.response.error
            = <<C10_Message(Last(web.invoked), web.last_outcome)>>
       /\ IF web.response.format = "json" THEN web.response.has_error_key
          ELSE web.response.body = "**Error:**"

C10_Witness ==
  /\ web.pc = "done"
  /\ Len(web.invoked) = 3
  /\ web.providers_used = <<>>
  /\ web.response.error # None
  /\ web.response.error[1].provider = web.providers_to_try[3]
  /\ web.response.error[1].text = "Request timed out"

(***************************************************************************)
(* Release of provider instances.                                          *)
(***************************************************************************)
C11_NoRepeats(s) == \A i, j \in 1..Len(s) : i # j => s[i] # s[j]

\* the instances of search_web: one per invoked candidate; all but the one
\* whose search is awaited are closed, and all are when the loop is left
C11_WebReleased ==
  /\ C11_NoRepeats(web.closed)
  /\ IsPrefix(web.closed, web.invoked)
  /\ Len(web.closed) = Len(web.invoked) - (IF web.pc = "searching" THEN 1 ELSE 0)

\* the instances of search_multi: one per task; a settled task has closed
\* its own, once, and when gather is over all have
C11_MultiReleased ==
  /\ C11_NoRepeats(multi.closed)
  /\ Range(multi.closed)
       = {i \in 1..Len(multi.tasks) : multi.tasks[i].st # "pending"}
  /\ multi.pc \in {"done", "raised"} =>
       Range(multi.closed) = 1..Len(multi.provider_instances)

C11_Over == code.pc \in {"done", "raised"}

C11_HasTransport(source) == source \in {"exa", "deepwiki", "grep"}

\* C11 as claimed: every instance a request created has been closed exactly
\* once when the request is over, in search_web, search_multi and search_code.
C11_EveryInstanceReleased ==
  /\ C11_WebReleased
  /\ C11_MultiReleased
  /\ C11_NoRepeats(code.closed)
  /\ C11_Over => code.closed = code.created

\* C11 as amended: every instance created by search_web, by search_multi and
\* by the helpers _exa_code_search, _deepwiki_search and _grep_app_search is
\* closed exactly once, whatever its call did, and none of them is open when
\* the request is over; the NoodlProvider of _noodl_search is not closed.
C11_TransportsReleased ==
  /\ C11_WebReleased
  /\ C11_MultiReleased
  /\ C11_NoRepeats(code.closed)
  /\ IsPrefix(code.closed, SelectSeq(code.created, C11_HasTransport))
  /\ C11_Over =>
       /\ code.closed = SelectSeq(code.created, C11_HasTransport)
       /\ code.in_flight = {}
  /\ "noodl" \notin Range(code.closed)

C11_Witness ==
  /\ code.pc = "raised"
  /\ code.raised_by = "noodl"
  /\ code.created = <<"exa", "deepwiki", "grep", "noodl">>
  /\ code.closed = <<"exa", "deepwiki", "grep">>

(***************************************************************************)
(* The weighted draw.                                                      *)
(***************************************************************************)
C12_Total == SumWeights(web.weights, Weight(config))

\* the cumulative weight of the first k keys of the table
C12_Cumulative(k) == SumWeights(SubSeq(web.weights, 1, k), Weight(config))

C12_Drawn == web.pc \notin {"idle", "raised"} /\ web.weights # <<>>

\* C12: with a positive total, the pick is the first key of the table whose
\* cumulative weight is greater than the draw r (2 * cumulative > r2), and
\* its weight is not 0.
C12_FirstExceedingDraw ==
  C12_Drawn /\ C12_Total > 0 =>
    /\ \E k \in 1..Len(web.weights) :
         /\ web.selected = web.weights[k]
         /\ 2 * C12_Cumulative(k) > web.r2
         /\ \A j \in 1..(k - 1) : 2 * C12_Cumulative(j) <= web.r2
    /\ config[web.selected].weight > 0

\* C13: with every weight 0 the pick is the key at the index random.choice
\* drew, and the indices it can draw are those of all the keys.
C13_UniformOverKeys ==
  C12_Drawn /\ C12_Total = 0 =>
    /\ web.u \in 1..Len(web.weights)
    /\ web.selected = web.weights[web.u]
    /\ web.selected \in Range(web.weights)
    /\ {web.weights[i] : i \in Choices(web.weights)} = Range(web.weights)

C13_Witness ==
  /\ C12_Drawn
  /\ C12_Total = 0
  /\ Len(web.weights) = 3
  /\ web.selected = web.weights[3]
  /\ web.providers_to_try[1] = "exa_mcp"

(***************************************************************************)
(* The repository cache.                                                   *)
(***************************************************************************)
C14_Left(r) == r.pc \notin {"idle", "clone", "git", "cloning"}

\* C14: a _clone_repo call that finds the directory returns its path and
\* runs no clone; so when a first call has returned a path and a second call
\* for the same repo comes after it, the second returns the same path and
\* runs no clone, and the two have run one clone if the directory was not
\* there before the first and none if it was.
C14_Idempotent ==
  /\ \A who \in Requests :
       Request(who).found =>
         /\ who \notin Range(code.clones)
         /\ Request(who).repo_path = GetCachePath(Request(who).repo_full)
  /\ code.repo_path # None /\ code.peer.sequential /\ C14_Left(code.peer) =>
       /\ code.peer.pc = "exa"
       /\ code.peer.found
       /\ code.peer.repo_path = code.repo_path
       /\ code.clones = IF code.found THEN <<>> ELSE <<"self">>

C14_Witness ==
  /\ code.pc = "done"
  /\ code.peer.sequential
  /\ code.peer.pc = "exa"
  /\ code.peer.repo_path = code.repo_path
  /\ code.clones = <<"self">>

\* C15: no request fails in _clone_repo because of the directory another
\* request's clone has made.
C15_RaceHarmless ==
  \A who \in Requests :
    ~(/\ Request(who).pc = "raised"
      /\ Request(who).raised_by = "_clone_repo"
      /\ Request(who).stderr = "already exists")

(***************************************************************************)
(* _parse_repo.                                                            *)
(***************************************************************************)
C16_Parsed == code.pc # "idle" /\ code.repo # <<>>

C16_LocalPath ==
  LET repo == Strip(code.repo, {" "})
  IN  \E prefix \in {<<"/">>, <<".", "/">>, <<".", ".", "/">>, <<"~">>} :
        StartsWith(repo, prefix)

\* C16: _parse_repo raises for a local path, and what it returns has an
\* owner and a name that are not empty.
C16_InvalidRejected ==
  C16_Parsed =>
    /\ C16_LocalPath => code.pc = "raised" /\ code.raised_by = "_parse_repo"
    /\ code.repo_full # None =>
         LET halves == SplitOnce(code.repo_full, "/")
         IN  /\ Len(halves) = 2
             /\ halves[1] # <<>>
             /\ halves[2] # <<>>

\* the spellings of the repository a/b on a host
C17_Forms(host) ==
  { Https \o host \o <<"/", "a", "/", "b">>,
    Https \o host \o <<"/", "a", "/", "b", ".", "g", "i", "t">>,
    GitAt \o host \o <<":", "a", "/", "b", ".", "g", "i", "t">> }
    \cup (IF host = GithubCom THEN {<<"a", "/", "b">>} ELSE {})

\* C17: every spelling of a/b on a host parses to the full name a/b and the
\* clone url https://host/a/b.git, the bare spelling on github.com.
C17_Canonical ==
  \A host \in {GithubCom, <<"h">>} :
    code.pc # "idle" /\ code.repo \in C17_Forms(host) =>
      /\ code.raised_by # "_parse_repo"
      /\ code.repo_full = <<"a", "/", "b">>
      /\ code.clone_url
           = Https \o host \o <<"/", "a", "/", "b", ".", "g", "i", "t">>

C17_Witness ==
  /\ code.pc = "done"
  /\ code.repo = GitAt \o GithubCom \o <<":", "a", "/", "b", ".", "g", "i", "t">>
  /\ code.repo_full = <<"a", "/", "b">>
  /\ code.clone_url = Https \o GithubCom \o <<"/", "a", "/", "b", ".", "g", "i", "t">>

(***************************************************************************)
(* search_code: the repo step, the report, the order of the calls.         *)
(***************************************************************************)
C18_OwnClones ==
  LET own(who) == who = "self"
  IN  SelectSeq(code.clones, own)

\* C18: a request whose repo does not parse or does not clone ends raised,
\* with no source called, no report, and at most the one clone run; and a
\* request with a repo calls a source only once it has the repo's full name
\* and path.
C18_RepoFailureFatal ==
  /\ code.raised_by \in {"_parse_repo", "_clone_repo"} =>
       /\ code.pc = "raised"
       /\ code.created = <<>>
       /\ code.queried = <<>>
       /\ code.report = NoReport
       /\ Len(C18_OwnClones) <= (IF code.raised_by = "_parse_repo" THEN 0 ELSE 1)
  /\ code.repo # <<>> /\ code.created # <<>> =>
       /\ code.repo_full # None
       /\ code.repo_path # None
  /\ Len(C18_OwnClones) <= 1

C18_Witness ==
  /\ code.pc = "raised"
  /\ code.raised_by = "_clone_repo"
  /\ code.stderr = "fatal"
  /\ code.clones = <<"self">>
  /\ code.queried = <<>>

C19_Title(source) ==
  CASE source = "exa" -> "Exa Code Context"
    [] source = "deepwiki" -> "DeepWiki"
    [] source = "grep" -> "grep.app"
    [] source = "noodl" -> "Noodl"

\* the position of a source in the fixed order
C19_Rank(source) == CHOOSE k \in 1..4 : <<"exa", "deepwiki", "grep", "noodl">>[k] = source

\* what the sources returned that was not empty, in the order they returned
C19_NonEmpty ==
  LET some(x) == x.results # <<>>
  IN  SelectSeq(code.returned, some)

\* C19: the report of search_code holds one section for every source that
\* returned something, with that source's title and results, in the order
\* Exa Code Context, DeepWiki, grep.app, Noodl, and a blank line between
\* neighbours; it is "No results found." when no source returned anything,
\* and is never empty.
C19_Report ==
  code.pc = "done" =>
    LET n == Len(C19_NonEmpty)
        out == code.report.sections
    IN  /\ code.report.body # ""
        /\ n = 0 => code.report = [body |-> "No results found.", sections |-> <<>>]
        /\ n > 0 =>
             /\ code.report.body # "No results found."
             /\ Len(out) = 2 * n - 1
             /\ \A k \in 1..n :
                  /\ out[2 * k - 1].title = C19_Title(C19_NonEmpty[k].source)
                  /\ out[2 * k - 1].results = C19_NonEmpty[k].results
             /\ \A k \in 1..(n - 1) :
                  /\ out[2 * k].title = "\n\n"
                  /\ C19_Rank(C19_NonEmpty[k].source)
                       < C19_Rank(C19_NonEmpty[k + 1].source)

C19_Witness ==
  /\ code.pc = "done"
  /\ Len(code.report.sections) = 7
  /\ code.report.sections[3].title = "DeepWiki"
  /\ code.report.sections[7].title = "Noodl"

\* C20 as claimed: the independent sources are in flight together: when the
\* first call has come back the full-text call has been started.
C20_SourcesInFlightTogether ==
  code.queried # <<>> => "grep" \in Range(code.created)

\* C20 as amended: the sources are called one after another in the order
\* exa, deepwiki, grep, noodl: at most one call is in flight, and a call is
\* started only when every call started before it has come back.
C20_SourcesSequential ==
  /\ Cardinality(code.in_flight) <= 1
  /\ \A i, j \in 1..Len(code.created) :
       i < j => C19_Rank(code.created[i]) < C19_Rank(code.created[j])
  /\ IF code.in_flight = {}
     THEN code.queried = code.created
     ELSE /\ code.in_flight = {Last(code.created)}
          /\ code.queried = SubSeq(code.created, 1, Len(code.created) - 1)

C20_Witness ==
  /\ code.in_flight = {"grep"}
  /\ code.queried = <<"exa", "deepwiki">>
  /\ code.created = <<"exa", "deepwiki", "grep">>

\* the request has reported a failure: an error in the response of
\* search_web or search_multi, an exception out of search_code
C21_WebFailed == web.pc = "done" /\ web.response.error # None

C21_MultiFailed == multi.pc = "done" /\ multi.response.error # None

C21_CodeFailed == code.pc = "raised"

\* C21: a request reports a failure only when every provider or source it
\* asked failed, or when resolving the repo failed: with one provider or
\* source that completed without failing there is no error response and no
\* exception.
C21_FailureOnlyWhenAllFailed ==
  /\ C21_WebFailed => web.providers_used = <<>>
  /\ C21_MultiFailed =>
       \A i \in 1..Len(multi.tasks) : multi.tasks[i].error # None
  /\ C21_CodeFailed /\ code.raised_by \notin {"_parse_repo", "_clone_repo"}
       => code.returned = <<>>

\* a is a subsequence of b
RECURSIVE C22_Within(_, _)
C22_Within(a, b) ==
  IF a = <<>> THEN TRUE
  ELSE IF b = <<>> THEN FALSE
  ELSE IF Head(a) = Head(b) THEN C22_Within(Tail(a), Tail(b))
  ELSE C22_Within(a, Tail(b))

\* an upstream item that is valid for the adapter `name`: an object with no
\* null field and a non-empty string under the url key the adapter reads
C22_Valid(name, item) ==
  /\ item.dict
  /\ \A k \in {"title", "url", "link", "content", "snippet"} : item[k].kind # "null"
  /\ ResultArgs(name, item).url.kind = "str"
  /\ ResultArgs(name, item).url.str # ""

C22_ValidResult(item) == NewSearchResult(ResultArgs(adapter.name, item), adapter.name)

C22_IsValid(item) == C22_Valid(adapter.name, item)

C22_Expected ==
  LET valid == SelectSeq(adapter.raw, C22_IsValid)
  IN  [i \in 1..Len(valid) |-> C22_ValidResult(valid[i])]

C22_Lines == Split(adapter.raw, "\n")

C22_Kind(line) ==
  IF StartsWith(line, TitleTag) THEN "title"
  ELSE IF StartsWith(line, UrlTag) THEN "url"
  ELSE IF StartsWith(line, TextTag) THEN "text"
  ELSE "other"

\* the text is a sequence of blocks in the endpoint's format: a Title line,
\* a URL line, and optionally a Text line with the lines that continue it
C22_WellFormed ==
  \A i \in 1..Len(C22_Lines) :
    LET kind == C22_Kind(C22_Lines[i])
        before == IF i = 1 THEN "none" ELSE C22_Kind(C22_Lines[i - 1])
        after == IF i = Len(C22_Lines) THEN "none" ELSE C22_Kind(C22_Lines[i + 1])
    IN  /\ kind = "title" => after = "url"
        /\ kind = "url" => before = "title"
        /\ kind = "text" => before = "url"
        /\ kind = "other" => before \in {"text", "other"}

C22_HasUrl(i) ==
  /\ C22_Kind(C22_Lines[i]) = "title"
  /\ Strip(From(C22_Lines[i + 1], 4), Whitespace) # <<>>

\* the blocks that carry a url, in the order of the text
C22_Blocks ==
  LET starts == SelectSeq([i \in 1..Len(C22_Lines) |-> i], C22_HasUrl)
  IN  [k \in 1..Len(starts) |->
         [title |-> Strip(From(C22_Lines[starts[k]], 6), Whitespace),
          url |-> Strip(From(C22_Lines[starts[k] + 1], 4), Whitespace)]]

C22_Parsed ==
  [k \in 1..Len(adapter.results) |->
     [title |-> adapter.results[k].title, url |-> adapter.results[k].url]]

\* C22: no adapter gives a result with an empty url; an upstream item that
\* lacks a url or is malformed raises nothing, it is only left out; and the
\* valid items of the answer are all among the results, in their order.
C22_MalformedItemsDropped ==
  /\ adapter.pc # "raised"
  /\ \A k \in 1..Len(adapter.results) :
       IF adapter.name \in {"base", "serper", "tavily"}
       THEN adapter.results[k].url # ""
       ELSE adapter.results[k].url # <<>>
  /\ adapter.pc = "done" /\ adapter.name \in {"base", "serper", "tavily"} =>
       C22_Within(C22_Expected, adapter.results)
  /\ adapter.pc = "done" /\ adapter.name = "exa_mcp" /\ C22_WellFormed =>
       C22_Parsed = C22_Blocks

\* enabled and holding a credential where one is required
C23_Eligible(n) ==
  config[n].enabled /\ (n = "exa_mcp" \/ config[n].api_key \/ config[n].api_keys)

\* C23: the keys of the weight table are exactly the enabled providers that
\* have their credentials, whatever their weights; every key can be
\* instantiated; and a request with a non-empty table attempts at least one
\* provider's search.
C23_KeysEligibleAndInstantiable ==
  LET weights == GetProviderWeights(config)
  IN  /\ Range(weights) = {n \in ProviderNames : C23_Eligible(n)}
      /\ \A k \in 1..Len(weights) : GetProviderInstance(weights[k], config)
      /\ web.pc = "done" /\ weights # <<>> => web.invoked # <<>>

\* what search_multi does once the candidates are resolved: with none it
\* answers the one error and launches nothing
C24_Resolved(candidates) ==
  /\ Range(multi.providers_to_use) = candidates
  /\ candidates = {} =>
       /\ multi.pc = "done"
       /\ multi.response.error = NoProvidersAvailable
       /\ multi.response.results = <<>>
       /\ multi.tasks = <<>>
       /\ multi.closed = <<>>
  /\ candidates # {} => multi.response.error # NoProvidersAvailable

C24_EligibleSet == {n \in ProviderNames : C23_Eligible(n)}

\* C24 as stated: whenever a subset is given (a list, empty or not) the
\* candidates are the eligible providers that the subset names.
C24_SubsetIntersected ==
  multi.pc # "idle" /\ multi.providers_given =>
    /\ multi.pc # "raised"
    /\ C24_Resolved(C24_EligibleSet \cap Range(multi.providers))

\* C24: whenever a non-empty subset is given the candidates are the
\* eligible providers that the subset names, unknown names being ignored
\* without error; with no subset or an empty one they are all eligible
\* providers; and with no candidate the response is the single no providers
\* available error and no provider is invoked.
C24_NonEmptySubsetIntersected ==
  multi.pc # "idle" =>
    /\ multi.pc # "raised"
    /\ C24_Resolved(IF multi.providers # <<>>
                    THEN C24_EligibleSet \cap Range(multi.providers)
                    ELSE C24_EligibleSet)

C24_Witness ==
  /\ multi.pc = "done"
  /\ multi.providers = <<"bogus", "tavily">>
  /\ "serper" \in C24_EligibleSet
  /\ multi.providers_to_use = <<"tavily">>
  /\ Len(multi.tasks) = 1
  /\ multi.response.results # <<>>

\* a rendered response tells an error, an empty answer and results apart
C25_Distinguished(r) ==
  /\ r.error # None =>
       /\ r.results = <<>>
       /\ IF r.format = "json" THEN r.has_error_key ELSE r.body = "**Error:**"
  /\ r.error = None =>
       /\ ~r.has_error_key
       /\ r.body # "**Error:**"
       /\ r.results = <<>> =>
            IF r.format = "json" THEN r.body = "object"
            ELSE r.body = "No results found."
       /\ r.results # <<>> /\ r.format = "markdown" => r.body = "results"

\* C25: a response of search_web or search_multi reports an error only with
\* an empty result list, never both; and empty results with no error are
\* rendered as "No results found." (markdown) or as an object with results
\* and no error key (json).
C25_ErrorOrResults ==
  /\ web.pc = "done" =>
       /\ C25_Distinguished(web.response)
       /\ web.response.results = web.results
       /\ web.results # <<>> => web.response.error = None
  /\ multi.pc = "done" =>
       /\ C25_Distinguished(multi.response)
       /\ multi.response.results = multi.all_results
       /\ multi.all_results # <<>> => multi.response.error = None

\* search_multi with one task that returned results and one that failed
C25_Witness ==
  /\ multi.pc = "done"
  /\ multi.errors # <<>>
  /\ multi.all_results # <<>>
  /\ multi.response.format = "json"
  /\ ~multi.response.has_error_key

\* C26: search_web takes a provider argument ("auto", a name, a comma-list
\* or "multi"): a call that passes one is accepted and ends with a
\* well-formed response instead of raising.
C26_ProviderArgumentAccepted ==
  /\ web.type_error # "provider"
  /\ web.pc = "raised" => web.type_error = ""

\* C27: search_web tries its candidates one after another: at most one
\* search is in flight; while one is in flight every earlier candidate's
\* search has failed and its provider is closed; no candidate is invoked
\* twice; and there are at most as many invocations as the weight table has
\* keys.
C27_Sequential ==
  /\ web.in_flight \in {0, 1}
  /\ web.in_flight = 1 <=> web.pc = "searching"
  /\ web.pc = "searching" =>
       /\ web.closed = SubSeq(web.invoked, 1, Len(web.invoked) - 1)
       /\ web.providers_used = <<>>
       /\ web.results = <<>>
       /\ Len(web.invoked) > 1 =>
            web.last_outcome.kind # "ok" /\ web.last_error # None
  /\ C11_NoRepeats(web.invoked)
  /\ Len(web.invoked) <= Len(web.weights)
  /\ web.pc = "done" => web.in_flight = 0 /\ web.closed = web.invoked

\* the third candidate is being searched after the first two failed
C27_Witness ==
  /\ web.pc = "searching"
  /\ Len(web.invoked) = 3
  /\ Len(web.closed) = 2

\* the cache holds a completed clone at the path
C28_Cloned(path) == \E e \in cache : e.path = path /\ e.complete

\* C28: _clone_repo hands a request a cache path only when a clone into that
\* path has completed successfully; in every interleaving of two requests
\* for one repo no request holds, and no Noodl search runs on, a directory
\* whose clone is still in progress or has failed.
C28_OnlyCompletedClones ==
  /\ \A who \in Requests :
       Request(who).repo_path # None => C28_Cloned(Request(who).repo_path)
  /\ "noodl" \in Range(code.created) => C28_Cloned(code.repo_path)

\* C29: the cache key is injective on repo references: the directory
\* _clone_repo returns to a request holds a clone of that request's clone
\* url, never one made for a reference that differs in host, owner or name.
C29_CacheKeyInjective ==
  \A who \in Requests :
    Request(who).repo_path # None =>
      \A e \in cache :
        e.path = Request(who).repo_path => e.clone_url = Request(who).clone_url

\* the names of the launched tasks, in launch order
C30_Launched == [i \in 1..Len(multi.tasks) |-> multi.tasks[i].name]

\* C30: one search_multi request searches each eligible provider at most
\* once, also when the providers argument repeats a name: one task per
\* distinct candidate, no provider listed twice among the providers used,
\* and no more merged results than the distinct providers returned.
C30_EachProviderOnce ==
  /\ C11_NoRepeats(C30_Launched)
  /\ C11_NoRepeats(multi.providers_used)
  /\ multi.pc = "done" => Len(multi.merged) <= MaxResults * Cardinality(Range(C30_Launched))

====
